---- MODULE Spec2Model ----
(***************************************************************************)
(* Model of ghregistry.  Three parts share this module, each with its own  *)
(* specification: the blob transfer operations of src/src/blobs.rs (Spec,  *)
(* SpecSeq), tag listing of src/src/tags.rs (SpecTags) and image rendering *)
(* of src/src/render.rs (SpecRender).  While one part runs, the variables  *)
(* of the others rest.                                                     *)
(*                                                                         *)
(* Blob transfer: Client::get_blob, Client::get_blob_with_progress and     *)
(* Client::get_blob_with_progress_file (the spec's get_blob_to_file).      *)
(* One digest and one target directory are fixed for a behaviour; `blob`   *)
(* is the byte sequence the digest identifies.  SHA-256 is idealised as    *)
(* collision free: a hasher's state is the byte sequence fed to it, and a  *)
(* hash verifies iff that sequence is `blob`.  The registry is the         *)
(* environment: it picks the status, the Accept-Ranges header and the      *)
(* body, which is streamed read by read.  The caller is the environment    *)
(* too: it picks each call's arguments and may drop the progress receiver  *)
(* at any moment.  Reads of the target file succeed; a write may fail.     *)
(***************************************************************************)
EXTENDS Integers, Sequences, FiniteSets, TLC

\* Longest blob, and longest response body, in bytes.
MaxLen == 2
\* Most bytes one read of the response returns (the 1024-byte buffer, scaled).
MaxRead == 2
\* Longest target file: a call appending to a file stops short of exceeding it.
MaxFile == MaxLen + 1

Bytes == {0, 1}

\* Most pages of tags a registry serves before the page that ends the list.
MaxPages == 2
\* Longest Link header value, in symbols.
MaxHdr == 3
\* Most layers of a render call, and most tar entries over all its layers.
MaxLayers == 2
MaxEntries == 2

VARIABLES
    blob,       \* the content the requested digest identifies
    file,       \* target_dir/<digest>: [exists, data]
    prev,       \* summary of the previous call
    op,         \* operation of the current call
    pc,         \* position of the current call in its code
    size,       \* argument `size`: {} is None, {n} is Some(n)
    sender,     \* argument `sender`: "none", "held" or "released"
    drops,      \* times the current call's sender has been released
    receiver,   \* the caller's end of the channel: "alive" or "gone"
    events,     \* byte counts sent on the channel by the current call
    entry,      \* the file as it was when the current call began
    hash,       \* bytes fed to the incremental hasher `hash`
    requests,   \* HTTP requests sent by the current call
    range,      \* Range header of the request: {} or {<<from, to>>}
    status,     \* status of the response
    ar,         \* Accept-Ranges of the response: "absent", "none", "bytes"
    recv,       \* bytes read from the response body so far
    chunk,      \* buffer[0..size] of the read being processed
    stream,     \* state of the body stream: "open", "eof", "err"
    len,        \* local `len`
    body_vec,   \* local `body_vec` of the in-memory operations
    mode,       \* how the target was opened: "closed", "truncate", "append"
    result      \* what the call returned

\* State of Client::get_tags (src/src/tags.rs).
VARIABLES
    t_pc,       \* position of the get_tags call in its code
    paginate,   \* argument `paginate`: {} is None, {n} is Some(n)
    link,       \* local `link`: {} is None, {t} is Some(t)
    t_result,   \* local `result`, the tags collected so far
    resp,       \* the response fetch_tags_chunk is looking at
    url,        \* query of the URL of the request sent last
    fetched,    \* requests sent by the call
    served,     \* the tag lists of the pages the registry served, in order
    t_ret       \* what get_tags returned: "none", "Ok" or "Err"

blobVars == <<blob, file, prev, op, pc, size, sender, drops, receiver,
              events, entry, hash, requests, range, status, ar, recv, chunk,
              stream, len, body_vec, mode, result>>

tagVars == <<t_pc, paginate, link, t_result, resp, url, fetched, served,
             t_ret>>

\* State of unpack, unpack_files and unpack_partial (src/src/render.rs).
VARIABLES
    r_pc,       \* position of the render call in its code
    r_op,       \* "unpack", "unpack_files" or "unpack_partial"
    target_dir, \* what the argument names: "dir", "relative", "missing", "file"
    fs,         \* the tree at target_dir: node of every path that exists
    fs0,        \* the tree as it was when the call began
    layers,     \* argument `layers` (for unpack_files: what the files hold)
    filter,     \* argument `filter` of unpack_partial
    l,          \* number of the layer the loop is at
    pos,        \* entries the current tar reader has yielded
    input,      \* where the BufReader `input` stands: "none", "start",
                \* "tail" or "member"
    r_ret,      \* what the call returned
    fault,      \* an I/O or decoding failure was met (other than the code's own)
    crafted,    \* the bytes behind a layer's archive formed a gzip member
    skipped     \* files unpack_files could not open

renderVars == <<r_pc, r_op, target_dir, fs, fs0, layers, filter, l, pos,
                input, r_ret, fault, crafted, skipped>>

vars == <<blobVars, tagVars, renderVars>>

RECURSIVE Sum(_)
Sum(s) == IF s = <<>> THEN 0 ELSE Head(s) + Sum(Tail(s))

SeqsUpTo(n) == UNION {[1..k -> Bytes] : k \in 0..n}

Absent == [exists |-> FALSE, data |-> <<>>]
OnDisk(d) == [exists |-> TRUE, data |-> d]

\* StatusCode::is_success / is_client_error over the statuses the registry sends.
Statuses == {200, 401, 500}
is_success(s) == s >= 200 /\ s < 300
is_client_error(s) == s >= 400 /\ s < 500

\* ContentDigest::start_hash, sha2::Sha256::new: nothing fed yet.
start_hash == <<>>
\* Digest::update(&mut hash, bytes)
update(h, bytes) == h \o bytes
\* ContentDigest::try_verify_hash / try_verify
try_verify_hash(h) == h = blob

\* A Result value: Ok(..) or Err(..), with the payload of Error::Client.
Res(k, st, n, b) == [kind |-> k, status |-> st, len |-> n, body |-> b]
NoResult == Res("none", 0, 0, <<>>)
Ok(b) == Res("Ok", 0, 0, b)
Err(k) == Res(k, 0, 0, <<>>)
\* Ok(target) of get_blob_with_progress_file: the path is target_dir/<digest>.
OkPath == Res("OkPath", 0, 0, <<>>)

NoPrev == [op |-> "none", kind |-> "none", size |-> {}, sent |-> 0]

Ops == {"get_blob", "get_blob_with_progress", "get_blob_with_progress_file"}
Sizes == {{}} \cup {{n} : n \in 0..MaxLen}

\* No response at hand, no URL requested yet.
NoResp == [present |-> FALSE, ascii |-> TRUE, value |-> <<>>, tags |-> <<>>,
           live |-> FALSE]
NoUrl == [n |-> {}, next_page |-> {}, sent |-> FALSE]

\* get_tags is not running.
TagsIdle ==
    /\ t_pc = "idle"
    /\ paginate = {}
    /\ link = {}
    /\ t_result = <<>>
    /\ resp = NoResp
    /\ url = NoUrl
    /\ fetched = 0
    /\ served = <<>>
    /\ t_ret = "none"

\* A path below target_dir is a sequence of names; a name is a base preceded
\* by `wh` copies of the whiteout prefix ".wh.".
Name(k, b) == [wh |-> k, base |-> b]
A == <<Name(0, "a")>>
D == <<Name(0, "d")>>
DA == <<Name(0, "d"), Name(0, "a")>>
WhA == <<Name(1, "a")>>
WhD == <<Name(1, "d")>>
DWhA == <<Name(0, "d"), Name(1, "a")>>
\* d/.wh..wh..opq
DOpq == <<Name(0, "d"), Name(2, ".opq")>>
Paths == {A, D, DA, WhA, WhD, DWhA, DOpq}

\* A tree maps the paths that exist to their nodes: "dir", or a regular file
\* named by its content, "X", "Y", or "W" for the empty file of a whiteout
\* entry.  At(t, p) is "none" for a path that does not exist.
EmptyTree == [p \in {} |-> "none"]
\* A directory d holding d/a.
SomeTree == [p \in {D, DA} |-> IF p = D THEN "dir" ELSE "X"]
At(t, p) == IF p \in DOMAIN t THEN t[p] ELSE "none"

RenderRes(k, t) == [kind |-> k, path |-> t]
NoRet == RenderRes("none", "none")

\* No render call is running.
RenderIdle ==
    /\ r_pc = "idle"
    /\ r_op = "none"
    /\ target_dir = "dir"
    /\ fs = EmptyTree
    /\ fs0 = EmptyTree
    /\ layers = <<>>
    /\ filter = <<>>
    /\ l = 0
    /\ pos = 0
    /\ input = "none"
    /\ r_ret = NoRet
    /\ fault = FALSE
    /\ crafted = FALSE
    /\ skipped = 0

Init ==
    /\ TagsIdle
    /\ RenderIdle
    /\ blob \in SeqsUpTo(MaxLen)
    /\ file = Absent
    /\ prev = NoPrev
    /\ op = "none"
    /\ pc = "idle"
    /\ size = {}
    /\ sender = "none"
    /\ drops = 0
    /\ receiver = "alive"
    /\ events = <<>>
    /\ entry = Absent
    /\ hash = start_hash
    /\ requests = 0
    /\ range = {}
    /\ status = 0
    /\ ar = "absent"
    /\ recv = <<>>
    /\ chunk = <<>>
    /\ stream = "open"
    /\ len = 0
    /\ body_vec = <<>>
    /\ mode = "closed"
    /\ result = NoResult

\* The sender is an owned argument (Option<Sender<u64>>): leaving the function,
\* by return or by `?`, drops it unless drop(send) already consumed it.
ScopeExit_Leak == /\ sender' = sender
                  /\ drops' = drops
ScopeExit == /\ sender' = IF sender = "held" THEN "released" ELSE sender
             /\ drops' = IF sender = "held" THEN drops + 1 ELSE drops

\* return r
Return(r) == /\ pc' = "done"
             /\ result' = r
             /\ ScopeExit

\* drop(send) followed by return r: the sender is consumed by the drop.
DropThenReturn(r) ==
    /\ pc' = "done"
    /\ result' = r
    /\ sender' = IF sender = "held" THEN "released" ELSE sender
    /\ drops' = IF sender = "held" THEN drops + 1 ELSE drops

\* send.send(n).unwrap() on a channel whose receiver is gone: the thread panics
\* and unwinds, which drops the locals.
Panic == /\ pc' = "panicked"
         /\ result' = Err("Panic")
         /\ ScopeExit

\* Entry of a call: fresh locals, and ContentDigest::try_new(digest)?, which
\* returns the parse error at once for a malformed digest string.
Begin(o, sz, snd, valid) ==
    /\ op' = o
    /\ size' = sz
    /\ receiver' = "alive"
    /\ events' = <<>>
    /\ entry' = file
    /\ hash' = start_hash
    /\ requests' = 0
    /\ range' = {}
    /\ status' = 0
    /\ ar' = "absent"
    /\ recv' = <<>>
    /\ chunk' = <<>>
    /\ stream' = "open"
    /\ len' = 0
    /\ body_vec' = <<>>
    /\ mode' = "closed"
    /\ IF valid
         THEN /\ pc' = "start"
              /\ result' = NoResult
              /\ sender' = snd
              /\ drops' = 0
         ELSE /\ pc' = "done"
              /\ result' = Err("ContentDigest")
              /\ sender' = IF snd = "held" THEN "released" ELSE snd
              /\ drops' = IF snd = "held" THEN 1 ELSE 0
    /\ UNCHANGED <<blob, file>>

\* The call is over: its locals are gone, the target file stays.
Over ==
    /\ pc \in {"done", "panicked"}
    /\ pc' = "idle"
    /\ op' = "none"
    /\ size' = {}
    /\ sender' = "none"
    /\ drops' = 0
    /\ receiver' = "alive"
    /\ events' = <<>>
    /\ entry' = Absent
    /\ hash' = start_hash
    /\ requests' = 0
    /\ range' = {}
    /\ status' = 0
    /\ ar' = "absent"
    /\ recv' = <<>>
    /\ chunk' = <<>>
    /\ stream' = "open"
    /\ len' = 0
    /\ body_vec' = <<>>
    /\ mode' = "closed"
    /\ result' = NoResult
    /\ prev' = NoPrev
    /\ UNCHANGED <<blob, file>>
    /\ UNCHANGED <<tagVars, renderVars>>

\* A caller invokes one of the operations, with any arguments.
Call ==
    /\ pc = "idle"
    /\ \E o \in Ops, sz \in Sizes, snd \in {"none", "held"}, valid \in BOOLEAN :
        /\ o # "get_blob_with_progress_file" => sz = {}
        /\ o = "get_blob" => snd = "none"
        /\ Begin(o, sz, snd, valid)
    /\ UNCHANGED prev
    /\ UNCHANGED <<tagVars, renderVars>>

\* The first of two consecutive calls of get_blob_with_progress_file, each
\* with a progress channel whose receiver the caller keeps.
CallFirst ==
    /\ pc = "idle"
    /\ \E sz \in Sizes :
         Begin("get_blob_with_progress_file", sz, "held", TRUE)
    /\ UNCHANGED prev
    /\ UNCHANGED <<tagVars, renderVars>>

\* The caller repeats the call that just returned: same digest, same
\* target_dir, same expected size, a new progress channel.
CallAgain ==
    /\ pc = "done"
    /\ prev = NoPrev
    /\ op = "get_blob_with_progress_file"
    /\ prev' = [op |-> op, kind |-> result.kind, size |-> size,
                sent |-> Sum(events)]
    /\ Begin(op, size, "held", TRUE)
    /\ UNCHANGED <<tagVars, renderVars>>

\* The caller drops the receiving end of the progress channel.
DropReceiver ==
    /\ pc \notin {"idle", "done", "panicked"}
    /\ sender = "held"
    /\ receiver = "alive"
    /\ receiver' = "gone"
    /\ UNCHANGED <<blob, file, prev, op, pc, size, sender, drops,
                   events, entry, hash, requests, range, status, ar, recv,
                   chunk, stream, len, body_vec, mode, result>>
    /\ UNCHANGED <<tagVars, renderVars>>

-----------------------------------------------------------------------------
(* Client::get_blob_with_progress_file                                      *)

InFile(p) == op = "get_blob_with_progress_file" /\ pc = p

\* F_PreTransfer resuming without feeding the partial file to the hasher.
F_PreTransfer_NoSeed ==
    /\ InFile("start")
    /\ IF file.exists /\ size # {}
         THEN LET s == CHOOSE n \in size : TRUE IN
              IF Len(file.data) = s
                THEN IF try_verify_hash(update(start_hash, file.data))
                       THEN /\ IF sender = "held" /\ receiver = "gone"
                                 THEN Panic /\ events' = events
                                 ELSE /\ Return(OkPath)
                                      /\ events' = IF sender = "held"
                                                     THEN Append(events, s)
                                                     ELSE events
                            /\ UNCHANGED <<file, hash, range>>
                       ELSE /\ file' = Absent
                            /\ pc' = "send"
                            /\ UNCHANGED <<hash, range, events, sender,
                                           drops, result>>
                ELSE /\ hash' = hash
                     /\ range' = {<<Len(file.data), s>>}
                     /\ pc' = "send"
                     /\ UNCHANGED <<file, events, sender, drops, result>>
         ELSE /\ pc' = "send"
              /\ UNCHANGED <<file, hash, range, events, sender, drops,
                             result>>
    /\ UNCHANGED <<blob, prev, op, size, receiver, entry, requests,
                   status, ar, recv, chunk, stream, len, body_vec, mode>>
    /\ UNCHANGED <<tagVars, renderVars>>

\* F_PreTransfer leaving a corrupt file of the expected size in place.
F_PreTransfer_KeepCorrupt ==
    /\ InFile("start")
    /\ IF file.exists /\ size # {}
         THEN LET s == CHOOSE n \in size : TRUE IN
              IF Len(file.data) = s
                THEN IF try_verify_hash(update(start_hash, file.data))
                       THEN /\ IF sender = "held" /\ receiver = "gone"
                                 THEN Panic /\ events' = events
                                 ELSE /\ Return(OkPath)
                                      /\ events' = IF sender = "held"
                                                     THEN Append(events, s)
                                                     ELSE events
                            /\ UNCHANGED <<file, hash, range>>
                       ELSE /\ file' = file
                            /\ pc' = "send"
                            /\ UNCHANGED <<hash, range, events, sender,
                                           drops, result>>
                ELSE /\ hash' = update(hash, file.data)
                     /\ range' = {<<Len(file.data), s>>}
                     /\ pc' = "send"
                     /\ UNCHANGED <<file, events, sender, drops, result>>
         ELSE /\ pc' = "send"
              /\ UNCHANGED <<file, hash, range, events, sender, drops,
                             result>>
    /\ UNCHANGED <<blob, prev, op, size, receiver, entry, requests,
                   status, ar, recv, chunk, stream, len, body_vec, mode>>
    /\ UNCHANGED <<tagVars, renderVars>>

\* F_PreTransfer resuming only a target shorter than the expected size: a
\* longer one is fetched with a plain GET.
F_PreTransfer_OnlyShorter ==
    /\ InFile("start")
    /\ IF file.exists /\ size # {}
         THEN LET s == CHOOSE n \in size : TRUE IN
              IF Len(file.data) = s
                THEN IF try_verify_hash(update(start_hash, file.data))
                       THEN /\ IF sender = "held" /\ receiver = "gone"
                                 THEN Panic /\ events' = events
                                 ELSE /\ Return(OkPath)
                                      /\ events' = IF sender = "held"
                                                     THEN Append(events, s)
                                                     ELSE events
                            /\ UNCHANGED <<file, hash, range>>
                       ELSE /\ file' = Absent
                            /\ pc' = "send"
                            /\ UNCHANGED <<hash, range, events, sender,
                                           drops, result>>
                ELSE /\ hash' = IF Len(file.data) < s
                                  THEN update(hash, file.data) ELSE hash
                     /\ range' = IF Len(file.data) < s
                                   THEN {<<Len(file.data), s>>} ELSE {}
                     /\ pc' = "send"
                     /\ UNCHANGED <<file, events, sender, drops, result>>
         ELSE /\ pc' = "send"
              /\ UNCHANGED <<file, hash, range, events, sender, drops,
                             result>>
    /\ UNCHANGED <<blob, prev, op, size, receiver, entry, requests,
                   status, ar, recv, chunk, stream, len, body_vec, mode>>
    /\ UNCHANGED <<tagVars, renderVars>>

\* Lines 170-209: look at the target and build the request.  A target of the
\* expected size is hashed with a hasher of its own: a match is the cache hit
\* (one progress event of `size`, return), a mismatch removes the file.  A
\* target of any other size seeds `hash` and asks for the rest with Range.
F_PreTransfer ==
    /\ InFile("start")
    /\ IF file.exists /\ size # {}
         THEN LET s == CHOOSE n \in size : TRUE IN
              IF Len(file.data) = s
                THEN IF try_verify_hash(update(start_hash, file.data))
                       THEN /\ IF sender = "held" /\ receiver = "gone"
                                 THEN Panic /\ events' = events
                                 ELSE /\ Return(OkPath)
                                      /\ events' = IF sender = "held"
                                                     THEN Append(events, s)
                                                     ELSE events
                            /\ UNCHANGED <<file, hash, range>>
                       ELSE /\ file' = Absent
                            /\ pc' = "send"
                            /\ UNCHANGED <<hash, range, events, sender,
                                           drops, result>>
                ELSE /\ hash' = update(hash, file.data)
                     /\ range' = {<<Len(file.data), s>>}
                     /\ pc' = "send"
                     /\ UNCHANGED <<file, events, sender, drops, result>>
         ELSE /\ pc' = "send"
              /\ UNCHANGED <<file, hash, range, events, sender, drops,
                             result>>
    /\ UNCHANGED <<blob, prev, op, size, receiver, entry, requests,
                   status, ar, recv, chunk, stream, len, body_vec, mode>>
    /\ UNCHANGED <<tagVars, renderVars>>

\* F_Send sending the request again after a transport failure.
F_Send_Retries ==
    /\ InFile("send")
    /\ requests' = requests + 1
    /\ \/ /\ IF requests = 0
               THEN UNCHANGED <<pc, sender, drops, result>>
               ELSE Return(Err("DownloadFailed"))
          /\ UNCHANGED <<status, ar>>
       \/ /\ \E st \in Statuses, h \in {"absent", "none", "bytes"} :
                /\ status' = st
                /\ ar' = h
          /\ pc' = "status"
          /\ UNCHANGED <<sender, drops, result>>
    /\ UNCHANGED <<blob, file, prev, op, size, receiver, events,
                   entry, hash, range, recv, chunk, stream, len, body_vec,
                   mode>>
    /\ UNCHANGED <<tagVars, renderVars>>

\* Lines 211-217: client.send().  A transport failure returns DownloadFailed;
\* otherwise the registry answers with a status and an Accept-Ranges header.
F_Send ==
    /\ InFile("send")
    /\ requests' = requests + 1
    /\ \/ /\ Return(Err("DownloadFailed"))
          /\ UNCHANGED <<status, ar>>
       \/ /\ \E st \in Statuses, h \in {"absent", "none", "bytes"} :
                /\ status' = st
                /\ ar' = h
          /\ pc' = "status"
          /\ UNCHANGED <<sender, drops, result>>
    /\ UNCHANGED <<blob, file, prev, op, size, receiver, events,
                   entry, hash, range, recv, chunk, stream, len, body_vec,
                   mode>>
    /\ UNCHANGED <<tagVars, renderVars>>

\* Lines 219-229: a status that is neither 2xx nor 4xx ends the call.
F_CheckStatus ==
    /\ InFile("status")
    /\ IF ~(is_success(status) \/ is_client_error(status))
         THEN DropThenReturn(Res("UnexpectedHttpStatus", status, 0, <<>>))
         ELSE /\ pc' = "open"
              /\ UNCHANGED <<sender, drops, result>>
    /\ UNCHANGED <<blob, file, prev, op, size, receiver, events,
                   entry, hash, requests, range, status, ar, recv, chunk,
                   stream, len, body_vec, mode>>
    /\ UNCHANGED <<tagVars, renderVars>>

\* F_OpenFile taking Accept-Ranges: none for a range unit.
F_OpenFile_NoneAppends ==
    /\ InFile("open")
    /\ IF ar \in {"absent"} \/ ~file.exists
         THEN /\ file' = OnDisk(<<>>)
              /\ mode' = "truncate"
              /\ pc' = "read"
              /\ UNCHANGED <<events, sender, drops, result>>
         ELSE IF sender = "held" /\ receiver = "gone"
                THEN /\ Panic
                     /\ UNCHANGED <<file, mode, events>>
                ELSE /\ events' = IF sender = "held"
                                    THEN Append(events, Len(file.data))
                                    ELSE events
                     /\ mode' = "append"
                     /\ pc' = "read"
                     /\ UNCHANGED <<file, sender, drops, result>>
    /\ UNCHANGED <<blob, prev, op, size, receiver, entry, hash,
                   requests, range, status, ar, recv, chunk, stream, len,
                   body_vec>>
    /\ UNCHANGED <<tagVars, renderVars>>

\* Lines 231-268: open the target.  Without Accept-Ranges, or with
\* Accept-Ranges: none, it is created or truncated.  Otherwise an existing
\* target is opened for appending after a progress event of its size, and a
\* missing one is created.
F_OpenFile ==
    /\ InFile("open")
    /\ IF ar \in {"absent", "none"} \/ ~file.exists
         THEN /\ file' = OnDisk(<<>>)
              /\ mode' = "truncate"
              /\ pc' = "read"
              /\ UNCHANGED <<events, sender, drops, result>>
         ELSE IF sender = "held" /\ receiver = "gone"
                THEN /\ Panic
                     /\ UNCHANGED <<file, mode, events>>
                ELSE /\ events' = IF sender = "held"
                                    THEN Append(events, Len(file.data))
                                    ELSE events
                     /\ mode' = "append"
                     /\ pc' = "read"
                     /\ UNCHANGED <<file, sender, drops, result>>
    /\ UNCHANGED <<blob, prev, op, size, receiver, entry, hash,
                   requests, range, status, ar, recv, chunk, stream, len,
                   body_vec>>
    /\ UNCHANGED <<tagVars, renderVars>>

\* Lines 272-274, 281-289: res.read(&mut buffer) returns some bytes, 0 at the
\* end of the body, or an error; the last two leave the loop.
F_Read ==
    /\ InFile("read")
    /\ \/ \E n \in 1..MaxRead :
            /\ Len(recv) + n <= MaxLen
            /\ Len(file.data) + n <= MaxFile
            /\ \E c \in [1..n -> Bytes] :
                 /\ chunk' = c
                 /\ recv' = recv \o c
            /\ pc' = "progress"
            /\ UNCHANGED stream
       \/ /\ stream' = "eof"
          /\ pc' = "finish"
          /\ UNCHANGED <<recv, chunk>>
       \/ /\ stream' = "err"
          /\ pc' = "finish"
          /\ UNCHANGED <<recv, chunk>>
    /\ UNCHANGED <<blob, file, prev, op, size, sender, drops,
                   receiver, events, entry, hash, requests, range, status,
                   ar, len, body_vec, mode, result>>
    /\ UNCHANGED <<tagVars, renderVars>>

\* F_Progress with the send moved behind the write: the chunk is hashed and
\* written before anything is reported.
F_Progress_Late ==
    /\ InFile("progress")
    /\ pc' = "update"
    /\ UNCHANGED <<blob, file, prev, op, size, sender, drops, receiver,
                   events, entry, hash, requests, range, status, ar, recv,
                   chunk, stream, len, body_vec, mode, result>>
    /\ UNCHANGED <<tagVars, renderVars>>

\* Lines 275-277: send.send(size as u64).unwrap()
F_Progress ==
    /\ InFile("progress")
    /\ IF sender = "held" /\ receiver = "gone"
         THEN Panic /\ events' = events
         ELSE /\ events' = IF sender = "held"
                             THEN Append(events, Len(chunk))
                             ELSE events
              /\ pc' = "update"
              /\ UNCHANGED <<sender, drops, result>>
    /\ UNCHANGED <<blob, file, prev, op, size, receiver, entry, hash,
                   requests, range, status, ar, recv, chunk, stream, len,
                   body_vec, mode>>
    /\ UNCHANGED <<tagVars, renderVars>>

\* Lines 278-279: len += size; Digest::update(&mut hash, &buffer[0..size])
F_Update ==
    /\ InFile("update")
    /\ len' = len + Len(chunk)
    /\ hash' = update(hash, chunk)
    /\ pc' = "write"
    /\ UNCHANGED <<blob, file, prev, op, size, sender, drops,
                   receiver, events, entry, requests, range, status, ar,
                   recv, chunk, stream, body_vec, mode, result>>
    /\ UNCHANGED <<tagVars, renderVars>>

\* F_Write reporting success without putting the chunk on disk.
F_Write_DropsChunk ==
    /\ InFile("write")
    /\ \/ /\ file' = file
          /\ pc' = "read"
          /\ UNCHANGED <<sender, drops, result>>
       \/ /\ \E k \in 0..(Len(chunk) - 1) :
                file' = OnDisk(file.data \o SubSeq(chunk, 1, k))
          /\ Return(Err("Io"))
    /\ UNCHANGED <<blob, prev, op, size, receiver, events, entry,
                   hash, requests, range, status, ar, recv, chunk, stream,
                   len, body_vec, mode>>
    /\ UNCHANGED <<tagVars, renderVars>>

\* Line 280: file.write_all(&buffer[0..size])?  A failed write may have put a
\* part of the chunk on disk; `?` returns the Io error.
F_Write ==
    /\ InFile("write")
    /\ \/ /\ file' = OnDisk(file.data \o chunk)
          /\ pc' = "read"
          /\ UNCHANGED <<sender, drops, result>>
       \/ /\ \E k \in 0..(Len(chunk) - 1) :
                file' = OnDisk(file.data \o SubSeq(chunk, 1, k))
          /\ Return(Err("Io"))
    /\ UNCHANGED <<blob, prev, op, size, receiver, events, entry,
                   hash, requests, range, status, ar, recv, chunk, stream,
                   len, body_vec, mode>>
    /\ UNCHANGED <<tagVars, renderVars>>

\* F_Finish returning the path of any 2xx response, verified or not.
F_Finish_NoVerify ==
    /\ InFile("finish")
    /\ DropThenReturn(
         IF is_success(status)
           THEN OkPath
           ELSE IF is_client_error(status)
                  THEN Res("Client", status, len, <<>>)
                  ELSE Res("UnexpectedHttpStatus", status, 0, <<>>))
    /\ UNCHANGED <<blob, file, prev, op, size, receiver, events, entry,
                   hash, requests, range, status, ar, recv, chunk, stream,
                   len, body_vec, mode>>
    /\ UNCHANGED <<tagVars, renderVars>>

\* Lines 292-313: drop(send), then the outcome by status class.
F_Finish ==
    /\ InFile("finish")
    /\ DropThenReturn(
         IF is_success(status)
           THEN IF try_verify_hash(hash)
                  THEN OkPath
                  ELSE Err("ContentDigest")
           ELSE IF is_client_error(status)
                  THEN Res("Client", status, len, <<>>)
                  ELSE Res("UnexpectedHttpStatus", status, 0, <<>>))
    /\ UNCHANGED <<blob, file, prev, op, size, receiver, events,
                   entry, hash, requests, range, status, ar, recv, chunk,
                   stream, len, body_vec, mode>>
    /\ UNCHANGED <<tagVars, renderVars>>

-----------------------------------------------------------------------------
(* Client::get_blob                                                         *)

InGet(p) == op = "get_blob" /\ pc = p

\* Lines 47-67: the outcome of get_blob for a status and a complete body,
\* followed by digest.try_verify(&blob) of lines 70-71.
get_blob_result(st, body) ==
    IF is_success(st)
      THEN IF try_verify_hash(update(start_hash, body))
             THEN Ok(body)
             ELSE Err("ContentDigest")
      ELSE IF is_client_error(st)
             THEN Res("Client", st, Len(body), body)
             ELSE Res("UnexpectedHttpStatus", st, 0, <<>>)

\* Lines 37-45: send()?, then the status check.
G_Send ==
    /\ InGet("start")
    /\ requests' = requests + 1
    /\ \/ /\ Return(Err("Reqwest"))
          /\ UNCHANGED status
       \/ \E st \in Statuses :
            /\ status' = st
            /\ IF ~(is_success(st) \/ is_client_error(st))
                 THEN Return(Res("UnexpectedHttpStatus", st, 0, <<>>))
                 ELSE /\ pc' = "bytes"
                      /\ UNCHANGED <<sender, drops, result>>
    /\ UNCHANGED <<blob, file, prev, op, size, receiver, events,
                   entry, hash, range, ar, recv, chunk, stream, len,
                   body_vec, mode>>
    /\ UNCHANGED <<tagVars, renderVars>>

\* Lines 47-71: res.bytes()? reads the whole body or fails.
G_Bytes ==
    /\ InGet("bytes")
    /\ \/ /\ stream' = "err"
          /\ Return(Err("Reqwest"))
          /\ UNCHANGED <<recv, body_vec, len>>
       \/ \E body \in SeqsUpTo(MaxLen) :
            /\ stream' = "eof"
            /\ recv' = body
            /\ body_vec' = body
            /\ len' = Len(body)
            /\ Return(get_blob_result(status, body))
    /\ UNCHANGED <<blob, file, prev, op, size, receiver, events,
                   entry, hash, requests, range, status, ar, chunk, mode>>
    /\ UNCHANGED <<tagVars, renderVars>>

-----------------------------------------------------------------------------
(* Client::get_blob_with_progress                                           *)

InProgress(p) == op = "get_blob_with_progress" /\ pc = p

\* Lines 87-97: send()?, then the status check, which drops the sender.
P_Send ==
    /\ InProgress("start")
    /\ requests' = requests + 1
    /\ \/ /\ Return(Err("Reqwest"))
          /\ UNCHANGED status
       \/ \E st \in Statuses :
            /\ status' = st
            /\ IF ~(is_success(st) \/ is_client_error(st))
                 THEN DropThenReturn(Res("UnexpectedHttpStatus", st, 0, <<>>))
                 ELSE /\ pc' = "read"
                      /\ UNCHANGED <<sender, drops, result>>
    /\ UNCHANGED <<blob, file, prev, op, size, receiver, events,
                   entry, hash, range, ar, recv, chunk, stream, len,
                   body_vec, mode>>
    /\ UNCHANGED <<tagVars, renderVars>>

\* Lines 104-107, 113-121: res.read(&mut buffer)
P_Read ==
    /\ InProgress("read")
    /\ \/ \E n \in 1..MaxRead :
            /\ Len(recv) + n <= MaxLen
            /\ \E c \in [1..n -> Bytes] :
                 /\ chunk' = c
                 /\ recv' = recv \o c
            /\ pc' = "progress"
            /\ UNCHANGED stream
       \/ /\ stream' = "eof"
          /\ pc' = "finish"
          /\ UNCHANGED <<recv, chunk>>
       \/ /\ stream' = "err"
          /\ pc' = "finish"
          /\ UNCHANGED <<recv, chunk>>
    /\ UNCHANGED <<blob, file, prev, op, size, sender, drops,
                   receiver, events, entry, hash, requests, range, status,
                   ar, len, body_vec, mode, result>>
    /\ UNCHANGED <<tagVars, renderVars>>

\* Lines 108-110: send.send(size as u64).unwrap()
P_Progress ==
    /\ InProgress("progress")
    /\ IF sender = "held" /\ receiver = "gone"
         THEN Panic /\ events' = events
         ELSE /\ events' = IF sender = "held"
                             THEN Append(events, Len(chunk))
                             ELSE events
              /\ pc' = "update"
              /\ UNCHANGED <<sender, drops, result>>
    /\ UNCHANGED <<blob, file, prev, op, size, receiver, entry, hash,
                   requests, range, status, ar, recv, chunk, stream, len,
                   body_vec, mode>>
    /\ UNCHANGED <<tagVars, renderVars>>

\* Lines 111-112: Digest::update(&mut hash, ..); body_vec.append(..)
P_Update ==
    /\ InProgress("update")
    /\ hash' = update(hash, chunk)
    /\ body_vec' = body_vec \o chunk
    /\ pc' = "read"
    /\ UNCHANGED <<blob, file, prev, op, size, sender, drops,
                   receiver, events, entry, requests, range, status, ar,
                   recv, chunk, stream, len, mode, result>>
    /\ UNCHANGED <<tagVars, renderVars>>

\* P_Finish wrapping a 4xx like the file variant does: with an empty body.
P_Finish_EmptyBody ==
    /\ InProgress("finish")
    /\ len' = Len(body_vec)
    /\ DropThenReturn(
         IF is_success(status)
           THEN IF try_verify_hash(hash)
                  THEN Ok(body_vec)
                  ELSE Err("ContentDigest")
           ELSE IF is_client_error(status)
                  THEN Res("Client", status, Len(body_vec), <<>>)
                  ELSE Res("UnexpectedHttpStatus", status, 0, <<>>))
    /\ UNCHANGED <<blob, file, prev, op, size, receiver, events, entry,
                   hash, requests, range, status, ar, recv, chunk, stream,
                   body_vec, mode>>
    /\ UNCHANGED <<tagVars, renderVars>>

\* Lines 123-148: len, drop(send), the outcome by status class, and
\* digest.try_verify_hash(&hash) on success.
P_Finish ==
    /\ InProgress("finish")
    /\ len' = Len(body_vec)
    /\ DropThenReturn(
         IF is_success(status)
           THEN IF try_verify_hash(hash)
                  THEN Ok(body_vec)
                  ELSE Err("ContentDigest")
           ELSE IF is_client_error(status)
                  THEN Res("Client", status, Len(body_vec), body_vec)
                  ELSE Res("UnexpectedHttpStatus", status, 0, <<>>))
    /\ UNCHANGED <<blob, file, prev, op, size, receiver, events,
                   entry, hash, requests, range, status, ar, recv, chunk,
                   stream, body_vec, mode>>
    /\ UNCHANGED <<tagVars, renderVars>>

Next ==
    \/ Call
    \/ Over
    \/ DropReceiver
    \/ G_Send
    \/ G_Bytes
    \/ P_Send
    \/ P_Read
    \/ P_Progress
    \/ P_Update
    \/ P_Finish
    \/ F_PreTransfer
    \/ F_Send
    \/ F_CheckStatus
    \/ F_OpenFile
    \/ F_Read
    \/ F_Progress
    \/ F_Update
    \/ F_Write
    \/ F_Finish

Spec == Init /\ [][Next]_vars

-----------------------------------------------------------------------------
(* Two consecutive calls of get_blob_with_progress_file for one digest and  *)
(* one target_dir, starting from any target file.                           *)

InitSeq ==
    /\ TagsIdle
    /\ RenderIdle
    /\ blob \in SeqsUpTo(MaxLen)
    /\ file \in {Absent} \cup {OnDisk(d) : d \in SeqsUpTo(MaxLen)}
    /\ prev = NoPrev
    /\ op = "none"
    /\ pc = "idle"
    /\ size = {}
    /\ sender = "none"
    /\ drops = 0
    /\ receiver = "alive"
    /\ events = <<>>
    /\ entry = file
    /\ hash = start_hash
    /\ requests = 0
    /\ range = {}
    /\ status = 0
    /\ ar = "absent"
    /\ recv = <<>>
    /\ chunk = <<>>
    /\ stream = "open"
    /\ len = 0
    /\ body_vec = <<>>
    /\ mode = "closed"
    /\ result = NoResult

NextSeq ==
    \/ CallFirst
    \/ CallAgain
    \/ F_PreTransfer
    \/ F_Send
    \/ F_CheckStatus
    \/ F_OpenFile
    \/ F_Read
    \/ F_Progress
    \/ F_Update
    \/ F_Write
    \/ F_Finish

SpecSeq == InitSeq /\ [][NextSeq]_vars

-----------------------------------------------------------------------------
(* Client::get_tags, Client::fetch_tags_chunk and parse_link                *)
(* (src/src/tags.rs).  A Link header value is a sequence of symbols: the    *)
(* two literals parse_link looks for, the separator '&', and "u" for any    *)
(* other piece of text.  A page's tags are numbers.                         *)

NP == "next_page="
REL == ">; rel=\"next\""
LinkSyms == {"u", "&", NP, REL}

\* The Link headers a response can carry: none, one that is not visible
\* ASCII, or a value.
LinkHeaders ==
    {[present |-> FALSE, ascii |-> TRUE, value |-> <<>>],
     [present |-> TRUE, ascii |-> FALSE, value |-> <<>>]}
    \cup {[present |-> TRUE, ascii |-> TRUE, value |-> v] :
            v \in UNION {[1..k -> LinkSyms] : k \in 0..MaxHdr}}

\* str::trim_end_matches(pat): strip every trailing occurrence.
RECURSIVE trim_end_matches(_, _)
trim_end_matches(s, pat) ==
    IF s # <<>> /\ s[Len(s)] = pat
      THEN trim_end_matches(SubSeq(s, 1, Len(s) - 1), pat)
      ELSE s

\* str::splitn(2, pat).collect(): the text before the first occurrence and
\* the text after it, or the whole text when there is none.
splitn(s, pat) ==
    IF \E i \in 1..Len(s) : s[i] = pat
      THEN LET i == CHOOSE i \in 1..Len(s) :
                        s[i] = pat /\ \A j \in 1..(i - 1) : s[j] # pat
           IN <<SubSeq(s, 1, i - 1), SubSeq(s, i + 1, Len(s))>>
      ELSE <<s>>

\* parse_link keeping the trailing `>; rel="next"` in the token.
parse_link_NoTrim(hdr) ==
    IF ~hdr.present \/ ~hdr.ascii
      THEN {}
      ELSE LET uri == hdr.value
               query == splitn(uri, NP)
           IN IF Len(query) < 2 \/ query[2] = <<>>
                THEN {}
                ELSE LET last == splitn(query[2], "&")
                     IN IF last[1] = <<>> THEN {} ELSE {last[1]}

\* Lines 93-123: None without a header, for a header that is not a string,
\* without a next_page= parameter and for an empty parameter; otherwise
\* Some(the parameter up to the first '&').
parse_link(hdr) ==
    IF ~hdr.present \/ ~hdr.ascii
      THEN {}
      ELSE LET uri == trim_end_matches(hdr.value, REL)
               query == splitn(uri, NP)
           IN IF Len(query) < 2 \/ query[2] = <<>>
                THEN {}
                ELSE LET last == splitn(query[2], "&")
                     IN IF last[1] = <<>> THEN {} ELSE {last[1]}

\* A caller invokes get_tags(name, paginate).
T_Call ==
    /\ t_pc = "idle"
    /\ t_pc' = "fetch"
    /\ paginate' \in {{}, {1}}
    /\ link' = {}
    /\ t_result' = <<>>
    /\ resp' = NoResp
    /\ url' = NoUrl
    /\ fetched' = 0
    /\ served' = <<>>
    /\ t_ret' = "none"
    /\ UNCHANGED <<blobVars, renderVars>>

\* Lines 52-64: build the URL from (paginate, link), send the request; a
\* transport failure or an error status returns the error through `?`.  The
\* registry serves a page of tags with or without a Link header; the page
\* after MaxPages pages carries none.
T_Fetch ==
    /\ t_pc = "fetch"
    /\ url' = [n |-> paginate, next_page |-> link, sent |-> TRUE]
    /\ fetched' = fetched + 1
    /\ \/ /\ t_pc' = "done"
          /\ t_ret' = "Err"
          /\ UNCHANGED <<resp, served>>
       \/ \E h \in LinkHeaders, c \in {<<>>, <<fetched + 1>>} :
            /\ fetched >= MaxPages => ~h.present
            /\ resp' = [present |-> h.present, ascii |-> h.ascii,
                        value |-> h.value, tags |-> c, live |-> TRUE]
            /\ served' = Append(served, c)
            /\ t_pc' = "loop"
            /\ UNCHANGED t_ret
    /\ UNCHANGED <<paginate, link, t_result>>
    /\ UNCHANGED <<blobVars, renderVars>>

\* Lines 82-86 and 32-40: parse the Link header, read the JSON body (which may
\* fail) and return from fetch_tags_chunk, whose URL and response are gone;
\* then push the tags, and break or go on with the next link.
T_Loop ==
    /\ t_pc = "loop"
    /\ resp' = NoResp
    /\ url' = NoUrl
    /\ \/ /\ t_pc' = "done"
          /\ t_ret' = "Err"
          /\ UNCHANGED <<link, t_result>>
       \/ LET last == parse_link(resp) IN
            /\ t_result' = t_result \o resp.tags
            /\ IF last = {}
                 THEN /\ t_pc' = "done"
                      /\ t_ret' = "Ok"
                      /\ UNCHANGED link
                 ELSE /\ link' = IF <<>> \in last THEN {} ELSE last
                      /\ t_pc' = "fetch"
                      /\ UNCHANGED t_ret
    /\ UNCHANGED <<paginate, fetched, served>>
    /\ UNCHANGED <<blobVars, renderVars>>

\* The call is over: its locals are gone.
T_Over ==
    /\ t_pc = "done"
    /\ t_pc' = "idle"
    /\ paginate' = {}
    /\ link' = {}
    /\ t_result' = <<>>
    /\ resp' = NoResp
    /\ url' = NoUrl
    /\ fetched' = 0
    /\ served' = <<>>
    /\ t_ret' = "none"
    /\ UNCHANGED <<blobVars, renderVars>>

\* No blob operation is running; there is no blob and no target file.
BlobIdle ==
    /\ blob = <<>>
    /\ file = Absent
    /\ prev = NoPrev
    /\ op = "none"
    /\ pc = "idle"
    /\ size = {}
    /\ sender = "none"
    /\ drops = 0
    /\ receiver = "alive"
    /\ events = <<>>
    /\ entry = Absent
    /\ hash = start_hash
    /\ requests = 0
    /\ range = {}
    /\ status = 0
    /\ ar = "absent"
    /\ recv = <<>>
    /\ chunk = <<>>
    /\ stream = "open"
    /\ len = 0
    /\ body_vec = <<>>
    /\ mode = "closed"
    /\ result = NoResult

InitTags ==
    /\ TagsIdle
    /\ RenderIdle
    /\ BlobIdle

NextTags ==
    \/ T_Call
    \/ T_Fetch
    \/ T_Loop
    \/ T_Over

\* get_tags blocks its thread until it returns: a call that can take a step
\* takes it.
SpecTags ==
    InitTags /\ [][NextTags]_vars /\ WF_vars(T_Fetch) /\ WF_vars(T_Loop)

-----------------------------------------------------------------------------
(* unpack, unpack_files, unpack_partial and clean_whiteouts                 *)
(* (src/src/render.rs).  A layer is the sequence of entries of its tar      *)
(* archive.  The gzip decoder and the tar reader of libflate and tar pull   *)
(* the layer's bytes through the BufReader `input`; when the tar reader has *)
(* seen the end of the archive, `input` stands behind the bytes consumed.   *)
(* What follows there is the rest of the gzip member (padding, trailer) and *)
(* whatever was appended to it: for a layer that is one gzip member this is *)
(* no gzip header ("tail"); only bytes made for the purpose form a further  *)
(* gzip member ("member"), whose entries are then any entries.              *)

EntryValues ==
    {[path |-> A, node |-> "X"], [path |-> A, node |-> "Y"],
     [path |-> D, node |-> "dir"], [path |-> DA, node |-> "X"],
     [path |-> WhA, node |-> "W"], [path |-> WhD, node |-> "W"],
     [path |-> DWhA, node |-> "W"], [path |-> DOpq, node |-> "W"]}

Archives(n) == UNION {[1..k -> EntryValues] : k \in 0..n}

\* The lists of at most n layers holding at most m entries altogether.
RECURSIVE LayerLists(_, _)
LayerLists(n, m) ==
    IF n = 0
      THEN {<<>>}
      ELSE {<<>>} \cup
           UNION {{<<a>> \o rest : rest \in LayerLists(n - 1, m - Len(a))} :
                    a \in Archives(m)}

\* Path::starts_with / strip_prefix: p is q or an ancestor of q.
IsUnder(p, q) == Len(p) <= Len(q) /\ p = SubSeq(q, 1, Len(p))

\* Entry::unpack_in: the entry is written at its path, over a file that is
\* there, and the directories above it are created.
Put(t, e) ==
    [q \in DOMAIN t \cup {q \in Paths : IsUnder(q, e.path)} |->
        IF q = e.path THEN e.node
        ELSE IF IsUnder(q, e.path) THEN "dir"
        ELSE t[q]]

\* Archive::unpack over the first n entries.
RECURSIVE Unpacked(_, _, _)
Unpacked(t, es, n) == IF n = 0 THEN t ELSE Put(Unpacked(t, es, n - 1), es[n])

\* fs::remove_dir_all(p): an error for a path that does not exist, the whole
\* subtree for a directory; a path that is a regular file is removed or
\* reported as not being a directory, as the library decides.
RemoveAll(t, p) == [q \in {q \in DOMAIN t : ~IsUnder(p, q)} |-> t[q]]
remove_dir_all(t, p) ==
    IF At(t, p) = "none" THEN {[ok |-> FALSE, fs |-> t]}
    ELSE IF At(t, p) = "dir" THEN {[ok |-> TRUE, fs |-> RemoveAll(t, p)]}
    ELSE {[ok |-> FALSE, fs |-> t], [ok |-> TRUE, fs |-> RemoveAll(t, p)]}

RenderReturn(k) ==
    /\ r_pc' = "done"
    /\ r_ret' = RenderRes(k, IF k = "WrongTargetPath" THEN target_dir
                             ELSE "none")

\* A caller invokes one of the three operations on target_dir.
R_Call ==
    /\ r_pc = "idle"
    /\ r_pc' = "check"
    /\ r_op' \in {"unpack", "unpack_files", "unpack_partial"}
    /\ layers' \in LayerLists(MaxLayers, MaxEntries)
    /\ filter' = IF r_op' = "unpack_partial" THEN D ELSE <<>>
    /\ fs0' = fs
    /\ UNCHANGED <<target_dir, fs, l, pos, input, r_ret, fault, crafted,
                   skipped>>
    /\ UNCHANGED <<blobVars, tagVars>>

\* R_Precheck without the is_dir test.
R_Precheck_NoDirCheck ==
    /\ r_pc = "check"
    /\ IF target_dir \in {"relative", "missing"}
         THEN RenderReturn("WrongTargetPath")
         ELSE /\ r_pc' = "next"
              /\ UNCHANGED r_ret
    /\ UNCHANGED <<r_op, target_dir, fs, fs0, layers, filter, l, pos, input,
                   fault, crafted, skipped>>
    /\ UNCHANGED <<blobVars, tagVars>>

\* Lines 25-27, 44-46, 71-73: target_dir must be absolute, exist and be a
\* directory.
R_Precheck ==
    /\ r_pc = "check"
    /\ IF target_dir # "dir"
         THEN RenderReturn("WrongTargetPath")
         ELSE /\ r_pc' = "next"
              /\ UNCHANGED r_ret
    /\ UNCHANGED <<r_op, target_dir, fs, fs0, layers, filter, l, pos, input,
                   fault, crafted, skipped>>
    /\ UNCHANGED <<blobVars, tagVars>>

\* Lines 28-32, 47-54, 74-78: the head of the loop.  After the last layer the
\* call returns Ok.  Otherwise the next layer gets a fresh BufReader and a
\* gzip decoder, whose header read may fail; unpack_files first opens the
\* file and goes on to the next one when that fails.
R_NextLayer ==
    /\ r_pc = "next"
    /\ IF l = Len(layers)
         THEN /\ RenderReturn("Ok")
              /\ UNCHANGED <<l, pos, input, fault, skipped>>
         ELSE /\ l' = l + 1
              /\ pos' = 0
              /\ \/ /\ r_op = "unpack_files"
                    /\ skipped' = skipped + 1
                    /\ input' = "none"
                    /\ UNCHANGED <<r_pc, r_ret, fault>>
                 \/ /\ input' = "start"
                    /\ fault' = TRUE
                    /\ RenderReturn("Io")
                    /\ UNCHANGED skipped
                 \/ /\ input' = "start"
                    /\ r_pc' = IF r_op = "unpack_partial" THEN "filter"
                               ELSE "unpack"
                    /\ UNCHANGED <<r_ret, fault, skipped>>
    /\ UNCHANGED <<r_op, target_dir, fs, fs0, layers, filter, crafted>>
    /\ UNCHANGED <<blobVars, tagVars>>

\* R_Unpack going on to the next layer after an entry that failed.
R_Unpack_GoesOn ==
    /\ r_pc = "unpack"
    /\ LET es == layers[l] IN
         \/ \E n \in 0..(Len(es) - 1) :
              /\ fs' = Unpacked(fs, es, n)
              /\ pos' = n
              /\ fault' = TRUE
              /\ r_pc' = "next"
              /\ UNCHANGED <<input, crafted, r_ret>>
         \/ /\ fs' = Unpacked(fs, es, Len(es))
            /\ pos' = Len(es)
            /\ \E rest \in {"tail", "member"} :
                 /\ input' = rest
                 /\ crafted' = (crafted \/ rest = "member")
            /\ r_pc' = "clean"
            /\ UNCHANGED <<r_ret, fault>>
    /\ UNCHANGED <<r_op, target_dir, fs0, layers, filter, l, skipped>>
    /\ UNCHANGED <<blobVars, tagVars>>

\* Lines 32-35, 54-57: archive.unpack(target_dir)? extracts the entries in
\* order; a failure leaves what was extracted before it.  The reader then
\* stands behind the archive.
R_Unpack ==
    /\ r_pc = "unpack"
    /\ LET es == layers[l] IN
         \/ \E n \in 0..(Len(es) - 1) :
              /\ fs' = Unpacked(fs, es, n)
              /\ pos' = n
              /\ fault' = TRUE
              /\ RenderReturn("Io")
              /\ UNCHANGED <<input, crafted>>
         \/ /\ fs' = Unpacked(fs, es, Len(es))
            /\ pos' = Len(es)
            /\ \E rest \in {"tail", "member"} :
                 /\ input' = rest
                 /\ crafted' = (crafted \/ rest = "member")
            /\ r_pc' = "clean"
            /\ UNCHANGED <<r_ret, fault>>
    /\ UNCHANGED <<r_op, target_dir, fs0, layers, filter, l, skipped>>
    /\ UNCHANGED <<blobVars, tagVars>>

\* Lines 81-89: unpack_partial walks the entries and compares each path with
\* the prefix; both arms of the match are empty, so nothing is written.  An
\* entry that cannot be read panics in unwrap().
R_Filter ==
    /\ r_pc = "filter"
    /\ LET es == layers[l]
           matched == {i \in 1..Len(es) : IsUnder(filter, es[i].path)}
       IN \/ \E n \in 0..(Len(es) - 1) :
               /\ pos' = n
               /\ fault' = TRUE
               /\ r_pc' = "panicked"
               /\ r_ret' = RenderRes("Panic", "none")
               /\ UNCHANGED <<input, crafted>>
          \/ /\ matched \subseteq 1..Len(es)
             /\ pos' = Len(es)
             /\ \E rest \in {"tail", "member"} :
                  /\ input' = rest
                  /\ crafted' = (crafted \/ rest = "member")
             /\ r_pc' = "clean"
             /\ UNCHANGED <<r_ret, fault>>
    /\ UNCHANGED <<r_op, target_dir, fs, fs0, layers, filter, l, skipped>>
    /\ UNCHANGED <<blobVars, tagVars>>

\* Lines 38, 60, 92 and 97-99: clean_whiteouts is handed the same BufReader,
\* which is not rewound, and gzip::Decoder::new(l)? reads a gzip header from
\* where it stands: an error unless a gzip member follows.
R_CleanWhiteouts ==
    /\ r_pc = "clean"
    /\ IF input = "member"
         THEN /\ r_pc' = "whiteouts"
              /\ pos' = 0
              /\ UNCHANGED r_ret
         ELSE /\ RenderReturn("Io")
              /\ UNCHANGED pos
    /\ UNCHANGED <<r_op, target_dir, fs, fs0, layers, filter, l, input,
                   fault, crafted, skipped>>
    /\ UNCHANGED <<blobVars, tagVars>>

\* Lines 100-122: one turn of the loop over the entries of the member found.
\* The opaque marker is passed over; for any other name starting with .wh.
\* the path named without the prefixes is removed, then the entry's own path.
R_Whiteout ==
    /\ r_pc = "whiteouts"
    /\ \/ /\ r_pc' = "next"
          /\ input' = "none"
          /\ UNCHANGED <<fs, pos, r_ret, fault>>
       \/ /\ fault' = TRUE
          /\ RenderReturn("Io")
          /\ UNCHANGED <<fs, pos, input>>
       \/ /\ pos < MaxEntries
          /\ pos' = pos + 1
          /\ \E w \in EntryValues :
               LET path == w.path
                   parent == SubSeq(path, 1, Len(path) - 1)
                   fname == path[Len(path)]
                   real == parent \o <<Name(0, fname.base)>>
               IN IF fname = Name(2, ".opq") \/ fname.wh = 0
                    THEN UNCHANGED <<fs, r_pc, r_ret>>
                    ELSE \E o1 \in remove_dir_all(fs, real) :
                           IF ~o1.ok
                             THEN fs' = o1.fs /\ RenderReturn("Io")
                             ELSE \E o2 \in remove_dir_all(o1.fs, path) :
                                    /\ fs' = o2.fs
                                    /\ IF o2.ok
                                         THEN UNCHANGED <<r_pc, r_ret>>
                                         ELSE RenderReturn("Io")
          /\ UNCHANGED <<input, fault>>
    /\ UNCHANGED <<r_op, target_dir, fs0, layers, filter, l, crafted,
                   skipped>>
    /\ UNCHANGED <<blobVars, tagVars>>

\* The target path names a directory (holding nothing or something), names
\* one relatively, names nothing, or names a regular file.
InitRender ==
    /\ BlobIdle
    /\ TagsIdle
    /\ r_pc = "idle"
    /\ r_op = "none"
    /\ target_dir \in {"dir", "relative", "missing", "file"}
    /\ fs \in IF target_dir \in {"dir", "relative"}
                THEN {EmptyTree, SomeTree} ELSE {EmptyTree}
    /\ fs0 = fs
    /\ layers = <<>>
    /\ filter = <<>>
    /\ l = 0
    /\ pos = 0
    /\ input = "none"
    /\ r_ret = NoRet
    /\ fault = FALSE
    /\ crafted = FALSE
    /\ skipped = 0

NextRender ==
    \/ R_Call
    \/ R_Precheck
    \/ R_NextLayer
    \/ R_Unpack
    \/ R_Filter
    \/ R_CleanWhiteouts
    \/ R_Whiteout

SpecRender == InitRender /\ [][NextRender]_vars

-----------------------------------------------------------------------------
(* Claims about one call (Spec)                                             *)

InFileCall == op = "get_blob_with_progress_file"

\* The target holds a file of exactly the expected size that does not hash to
\* the digest.
CorruptAtEntry ==
    /\ InFileCall
    /\ entry.exists
    /\ size = {Len(entry.data)}
    /\ entry.data # blob

\* C3: given a file of length exactly expected_size whose contents do not hash
\* to the digest, the call deletes the file before it sends anything, sends a
\* plain GET without Range, opens the target afresh (writing from offset 0)
\* whatever the Accept-Ranges header, and on a 2xx response carrying the blob
\* ends with a file equal to the blob and returns its path.
C3_CorruptionRecovery ==
    CorruptAtEntry =>
        /\ range = {}
        /\ pc \in {"send", "status", "open"} => file = Absent
        /\ mode # "append"
        /\ (pc = "done" /\ is_success(status) /\ stream = "eof" /\ recv = blob)
              => (file = OnDisk(blob) /\ result = OkPath)

\* C3 witness: a corrupt file replaced under Accept-Ranges: bytes.
C3_Witness ==
    /\ CorruptAtEntry
    /\ ar = "bytes"
    /\ pc = "done"
    /\ entry.data # <<>>
    /\ blob # <<>>
    /\ file = OnDisk(blob)
    /\ result = OkPath

\* A response without range support whose body was read to its end and
\* written without error.
Downgraded ==
    /\ InFileCall
    /\ pc = "done"
    /\ status \in Statuses
    /\ ar \in {"absent", "none"}
    /\ stream # "err"
    /\ result.kind # "Io"

C5_ProgressClosure ==
    /\ [](drops <= 1)
    /\ []((pc = "done" /\ op \in {"get_blob_with_progress",
                                  "get_blob_with_progress_file"})
            => /\ sender \in {"none", "released"}
               /\ drops = IF sender = "released" THEN 1 ELSE 0)
    /\ [][sender = "released" => Len(events') <= Len(events)]_vars

\* C5 witness: a cache hit, which returns without an explicit drop, has
\* released the sender after its one event.
C5_Witness ==
    /\ InFileCall
    /\ pc = "done"
    /\ requests = 0
    /\ result = OkPath
    /\ Len(events) = 1
    /\ sender = "released"
    /\ drops = 1

\* C6 (as claimed): a progress send that fails because the caller dropped the
\* receiver ends the transfer as a cancellation that returns to the caller,
\* with the partial file left intact: no call is ever left by a panic.
C6_CancellationReturns == pc # "panicked"

\* Bytes of the response fed to `hash` (the rest of `hash` is the seed).
StreamHashed ==
    IF op = "get_blob_with_progress_file" THEN len ELSE Len(hash)

\* Bytes of the response put on disk by the current call.
StreamWritten ==
    IF mode = "closed" THEN 0
    ELSE Len(file.data) - (IF mode = "append" THEN Len(entry.data) ELSE 0)

\* The events that report chunks: all but the event of the existing size
\* that precedes an append.
ChunkEvents == IF mode = "append" /\ events # <<>> THEN Tail(events) ELSE events

IsPrefix(a, b) == Len(a) <= Len(b) /\ a = SubSeq(b, 1, Len(a))

\* C7: in a transfer with a progress channel the bytes hashed, buffered and
\* written are each a prefix of the bytes received, in the order received,
\* and never more than the chunk events sent so far add up to.
C7_ProgressBeforePersist ==
    (op \in {"get_blob_with_progress", "get_blob_with_progress_file"}
       /\ sender # "none")
    => /\ StreamHashed <= Sum(ChunkEvents)
       /\ StreamWritten <= Sum(ChunkEvents)
       /\ Len(body_vec) <= Sum(ChunkEvents)
       /\ StreamHashed <= Len(hash)
       /\ IsPrefix(SubSeq(hash, Len(hash) - StreamHashed + 1, Len(hash)), recv)
       /\ StreamWritten >= 0
       /\ IsPrefix(SubSeq(file.data, Len(file.data) - StreamWritten + 1,
                          Len(file.data)), recv)
       /\ IsPrefix(body_vec, recv)

\* C7 witness: the second chunk of a file transfer has been reported and is
\* not yet hashed or written.
C7_Witness ==
    /\ InFileCall
    /\ pc = "update"
    /\ sender = "held"
    /\ Len(ChunkEvents) = 2
    /\ StreamHashed = 1
    /\ StreamWritten = 1
    /\ Sum(ChunkEvents) = 2

\* C8 (as claimed): between the steps of the streaming loop and when the call
\* is over, the target is either as it was at entry or holds exactly the
\* bytes that have been fed to the incremental hasher.
C8_FileHasherConsistency ==
    (/\ InFileCall
     /\ \/ pc \in {"read", "finish"}
        \/ pc = "done" /\ stream # "open")
    => \/ file = entry
       \/ file = OnDisk(hash)

\* What the target holds once the bytes received have been written: they
\* follow the file found at entry when appending, and stand alone otherwise.
Written == (IF mode = "append" THEN entry.data ELSE <<>>) \o recv

C10_SameStatusHandling ==
    (op \in {"get_blob", "get_blob_with_progress"} /\ pc = "done"
       /\ status \in Statuses)
    => IF is_success(status) \/ is_client_error(status)
         THEN stream = "eof" =>
                /\ result = get_blob_result(status, recv)
                /\ result = IF is_success(status)
                              THEN IF recv = blob
                                     THEN Ok(recv)
                                     ELSE Err("ContentDigest")
                              ELSE Res("Client", status, Len(recv), recv)
         ELSE result = Res("UnexpectedHttpStatus", status, 0, <<>>)

\* C10 witness: get_blob_with_progress has returned a 4xx whose body came in
\* two reads.
C10_Witness ==
    /\ op = "get_blob_with_progress"
    /\ pc = "done"
    /\ status = 401
    /\ stream = "eof"
    /\ Len(events) = 2
    /\ result = Res("Client", 401, 2, recv)

\* A call that found no target and received a 2xx response whose body, read to
\* its end and written without error, is the blob.
FreshDownload ==
    /\ InFileCall
    /\ entry = Absent
    /\ pc = "done"
    /\ is_success(status)
    /\ stream = "eof"
    /\ result.kind # "Io"
    /\ recv = blob

\* C11: when the target is absent and the registry replies 2xx with a body that
\* hashes to the digest, the call sends a plain GET and returns the path, the
\* file holds exactly the body, the progress events add up to the length of
\* the body (none at all for an empty body), and the sender is released.
C11_FreshDownload ==
    FreshDownload =>
        /\ range = {}
        /\ result = OkPath
        /\ file = OnDisk(recv)
        /\ sender # "none" => /\ Sum(events) = Len(recv)
                              /\ recv = <<>> => events = <<>>
                              /\ \A i \in 1..Len(events) : events[i] > 0
                              /\ sender = "released"

\* C11 witness: a fresh two-byte blob that arrived in two reads from a
\* registry announcing range support.
C11_Witness ==
    /\ FreshDownload
    /\ sender = "released"
    /\ ar = "bytes"
    /\ events = <<1, 1>>
    /\ file = OnDisk(blob)

\* C17 (as claimed): when the hasher was seeded from a partial file and the
\* response has no Accept-Ranges header or Accept-Ranges: none, the seed is
\* discarded: the hasher holds the response body alone, so a 2xx response
\* carrying the complete blob makes the call return the path.
C17_HasherResetOnDowngrade ==
    (/\ InFileCall
     /\ pc = "done"
     /\ range # {}
     /\ is_success(status)
     /\ ar \in {"absent", "none"}
     /\ stream = "eof"
     /\ result.kind # "Io"
     /\ recv = blob)
    => /\ hash = recv
       /\ result = OkPath

\* The Range header the claim prescribes for the target found at entry.
RangeExpected ==
    IF entry.exists /\ size # {} /\ size # {Len(entry.data)}
      THEN {<<Len(entry.data), CHOOSE n \in size : TRUE>>}
      ELSE {}

\* C18: the request carries a Range header exactly when the target exists,
\* expected_size is given and the file size differs from it (smaller or
\* larger); the header is then bytes={current_size}-{expected_size} and the
\* hasher is seeded with the file contents.  Every other request (target
\* absent, expected_size absent, corrupt file deleted) is a plain GET with a
\* fresh hasher.
C18_RequestShape ==
    (InFileCall /\ (pc = "send" \/ requests > 0))
    => /\ range = RangeExpected
       /\ pc \in {"send", "status", "open"} =>
             hash = IF range # {} THEN entry.data ELSE start_hash

\* C18 witness: a target longer than the expected size is resumed too.
C18_Witness ==
    /\ InFileCall
    /\ requests = 1
    /\ pc = "status"
    /\ Len(entry.data) = 2
    /\ size = {1}
    /\ range = {<<2, 1>>}
    /\ hash = entry.data

\* C22 (as claimed): whenever the call returns the path, the file at the
\* path hashes to the requested digest, whatever the target held at entry,
\* whatever expected_size and whatever Accept-Ranges value the response had.
C22_SuccessImpliesVerifyingFile ==
    (InFileCall /\ pc = "done" /\ result = OkPath)
    => /\ file.exists
       /\ try_verify_hash(update(start_hash, file.data))

\* The target found at entry is the cache hit of lines 172-185: a file of
\* the expected size that hashes to the digest.
CacheHit ==
    /\ size # {}
    /\ entry.exists
    /\ Len(entry.data) \in size
    /\ try_verify_hash(update(start_hash, entry.data))

\* C23: a call sends at most one HTTP request.  None is sent before the
\* target was examined, none on a cache hit, and none when the digest string
\* does not parse (a ContentDigest error with no response received); once
\* the request is sent the call never comes back to sending, whatever the
\* outcome.  The target is opened for writing only after a response with a
\* 2xx or 4xx status; until then its content is as found at entry, or the
\* file of the expected size that failed verification has been removed.
C23_SingleRequest ==
    InFileCall =>
      /\ requests <= 1
      /\ pc = "start" => requests = 0
      /\ requests = 1 => pc \notin {"start", "send"}
      /\ (CacheHit /\ pc # "start") =>
           (requests = 0 /\ pc \in {"done", "panicked"})
      /\ (result.kind = "ContentDigest" /\ status = 0) => requests = 0
      /\ mode # "closed" =>
           (requests = 1 /\ (is_success(status) \/ is_client_error(status)))
      /\ mode = "closed" => file \in {entry, Absent}

\* The one request was answered with a 2xx status and a body that does not
\* hash to the digest: the call is over with a ContentDigest error after
\* that single request.
C23_Witness ==
    /\ InFileCall
    /\ pc = "done"
    /\ result = Err("ContentDigest")
    /\ is_success(status)
    /\ mode # "closed"
    /\ requests = 1
    /\ recv # blob

-----------------------------------------------------------------------------
(* Claims about two consecutive calls (SpecSeq)                             *)

InSecondCall == prev # NoPrev /\ op = "get_blob_with_progress_file"

\* C1 (as claimed): when get_blob_with_progress_file is called twice with the
\* same digest, target_dir and expected_size = N, and the first call returned
\* Ok leaving a file of N bytes, the second call sends no HTTP request, emits
\* exactly one progress event, of value N, and returns the same path.
C1_CacheIdempotence ==
    \A n \in 0..MaxFile :
        (/\ InSecondCall
         /\ prev.kind = "OkPath"
         /\ size = {n}
         /\ entry.exists
         /\ Len(entry.data) = n)
        => /\ requests = 0
           /\ pc = "done" => (events = <<n>> /\ result = OkPath)

\* The second call finds a partial file, the first p bytes of the n-byte blob,
\* asks for the rest, and the registry honours the Range request: a 2xx
\* response that announces range support and carries the remaining bytes.
Resumed(p, n) ==
    /\ InSecondCall
    /\ size = {n}
    /\ Len(blob) = n
    /\ p < n
    /\ entry = OnDisk(SubSeq(blob, 1, p))
    /\ pc = "done"
    /\ is_success(status)
    /\ ar = "bytes"
    /\ stream = "eof"
    /\ recv = SubSeq(blob, p + 1, n)

\* C2 (as claimed): resuming from a partial file of p < N correct bytes left
\* by the previous call, against a registry that honours the Range request,
\* yields the complete verifying N-byte file, and the byte counts reported on
\* the progress channel across both calls total N.
C2_ResumptionTotalOverBothCalls ==
    \A p \in 0..MaxLen, n \in 0..MaxLen :
        Resumed(p, n) => /\ file = OnDisk(blob)
                         /\ result = OkPath
                         /\ prev.sent + Sum(events) = n

\* C2 (amended): under the same conditions the call sends Range: bytes=p-N,
\* yields the complete verifying N-byte file and returns its path, and the
\* byte counts it reports itself total N: one event of p for the bytes
\* already on disk, then the N - p streamed bytes.
C2_Resumption ==
    \A p \in 0..MaxLen, n \in 0..MaxLen :
        Resumed(p, n) => /\ range = {<<p, n>>}
                         /\ file = OnDisk(blob)
                         /\ result = OkPath
                         /\ events # <<>>
                         /\ Head(events) = p
                         /\ Sum(events) = n

\* C2 witness: a resumed call that found one byte of a two-byte blob, the
\* previous call having reported that byte.
C2_Witness ==
    /\ Resumed(1, 2)
    /\ prev.sent = 1
    /\ result = OkPath

-----------------------------------------------------------------------------
(* Claims about get_tags (SpecTags)                                         *)

\* The next_page parameter as the Link header shows it: what stands between
\* the first next_page= and the next '&', the closing `>; rel="next"` left
\* aside.  Empty when there is no header, no parameter or nothing in it.
Token(h) ==
    IF ~h.present \/ ~h.ascii
      THEN <<>>
      ELSE LET v == h.value
               ends == {k \in 1..Len(v) : v[k] # REL}
               e == IF ends = {} THEN 0
                    ELSE CHOOSE k \in ends : \A j \in ends : j <= k
               starts == {i \in 1..e : v[i] = NP}
           IN IF starts = {}
                THEN <<>>
                ELSE LET i == CHOOSE i \in starts : \A j \in starts : i <= j
                         stops == {j \in (i + 1)..e : v[j] = "&"}
                         j == IF stops = {} THEN e + 1
                              ELSE CHOOSE j \in stops : \A m \in stops : j <= m
                     IN SubSeq(v, i + 1, j - 1)

RECURSIVE Flatten(_)
Flatten(ss) == IF ss = <<>> THEN <<>> ELSE Head(ss) \o Flatten(Tail(ss))

\* C16: every request carries n=<paginate> when given; the first carries no
\* next_page and each later one the token of the page before it; the loop
\* stops at the first page whose Link header is missing or yields no token
\* and goes on otherwise; a call returns once the registry serves such a page;
\* and the tags returned are those of the pages served, in page order.
C16_TagPagination ==
    /\ [][(t_pc = "fetch" /\ fetched' = fetched + 1)
            => url' = [n |-> paginate, next_page |-> link, sent |-> TRUE]]_vars
    /\ []((fetched = 1 /\ url.sent) => url.next_page = {})
    /\ [][(t_pc = "loop" /\ t_pc' # "loop" /\ t_ret' # "Err")
            => IF Token(resp) = <<>>
                 THEN t_pc' = "done" /\ t_ret' = "Ok"
                 ELSE t_pc' = "fetch" /\ link' = {Token(resp)}]_vars
    /\ [](t_ret = "Ok" => /\ t_result = Flatten(served)
                          /\ Len(served) = fetched)
    /\ ((t_pc = "fetch") ~> (t_pc = "done"))

\* C16 witness: the second page, requested with n=1 and the token of the
\* first page's header, has arrived without a Link header.
C16_Witness ==
    /\ t_pc = "loop"
    /\ fetched = 2
    /\ url = [n |-> {1}, next_page |-> {<<"u">>}, sent |-> TRUE]
    /\ t_result = <<1>>
    /\ resp.tags = <<2>>
    /\ ~resp.present

-----------------------------------------------------------------------------
(* Claims about rendering (SpecRender)                                      *)

\* A call on a directory whose layers are gzip-compressed tar archives and
\* nothing more, and which met no I/O failure, is over.
PlainDone(o) ==
    /\ r_op = o
    /\ r_pc = "done"
    /\ target_dir = "dir"
    /\ ~fault
    /\ ~crafted

LayerNos == 1..Len(layers)
RealPaths == {A, D, DA}

\* Layer k has an entry for path p.
Adds(k, p) == \E i \in 1..Len(layers[k]) : layers[k][i].path = p

\* What the last entry for p in layer k holds.
Given(k, p) ==
    LET is == {i \in 1..Len(layers[k]) : layers[k][i].path = p}
        i == CHOOSE i \in is : \A j \in is : j <= i
    IN layers[k][i].node

\* The whiteout entry that masks the real path p: .wh.<name> beside it.
WhiteoutOf(p) ==
    SubSeq(p, 1, Len(p) - 1) \o <<Name(1, p[Len(p)].base)>>

\* Layer k whites out p or a directory above it.
Masks(k, p) == \E q \in RealPaths : IsUnder(q, p) /\ Adds(k, WhiteoutOf(q))

\* Layer k makes the directory of p opaque.
Opaque(k, p) == Len(p) = 2 /\ SubSeq(p, 1, 1) = D /\ Adds(k, DOpq)

\* C12 (as claimed): layers are applied in list order, each with its
\* whiteouts before the next is extracted, so the last layer that mentions a
\* path decides: a path whose last entry is in layer k, and which neither
\* layer k nor a later one whites out, ends with what that entry holds.
C12_LayerOrdering ==
    PlainDone("unpack") =>
        \A p \in RealPaths : \A k \in LayerNos :
            (/\ Adds(k, p)
             /\ \A j \in LayerNos : j > k => ~Adds(j, p) /\ ~Opaque(j, p)
             /\ \A j \in LayerNos : j >= k => ~Masks(j, p))
            => At(fs, p) = Given(k, p)

\* C13 (as claimed): when a layer adds D/X and a later layer holds D/.wh.X
\* (and neither that layer nor a later one adds D/X or anything below it
\* again, nor a later one the marker), then after unpack D/X is gone with all
\* below it, no D/.wh.X is left, and unpack has returned Ok.
C13_FileWhiteout ==
    PlainDone("unpack") =>
        \A p \in RealPaths : \A i \in LayerNos : \A j \in LayerNos :
            (/\ i < j
             /\ Adds(i, p)
             /\ Adds(j, WhiteoutOf(p))
             /\ \A m \in LayerNos : \A q \in RealPaths :
                  (m >= j /\ IsUnder(p, q)) => ~Adds(m, q)
             /\ \A m \in LayerNos : m > j => ~Adds(m, WhiteoutOf(p)))
            => /\ \A q \in Paths : IsUnder(p, q) => At(fs, q) = "none"
               /\ At(fs, WhiteoutOf(p)) = "none"
               /\ r_ret = RenderRes("Ok", "none")

\* C14: a call of unpack, unpack_files or unpack_partial whose target_dir is
\* relative, missing or no directory never gets past the check: it returns
\* WrongTargetPath with that path, no layer is opened or read, and the tree
\* stays as it was.
C14_RenderPrecheck ==
    target_dir # "dir" =>
        /\ r_pc \in {"idle", "check", "done"}
        /\ fs = fs0
        /\ l = 0
        /\ pos = 0
        /\ input = "none"
        /\ skipped = 0
        /\ r_pc = "done" => r_ret = RenderRes("WrongTargetPath", target_dir)

\* C14 witness: unpack_partial of two layers with entries under the prefix
\* has been refused for a relative path that names a directory with content.
C14_Witness ==
    /\ r_pc = "done"
    /\ r_op = "unpack_partial"
    /\ target_dir = "relative"
    /\ fs = SomeTree
    /\ Len(layers) = 2
    /\ Adds(1, DA)
    /\ r_ret = RenderRes("WrongTargetPath", "relative")

\* C15 (as claimed): when layer k holds d/.wh..wh..opq, every entry of d that
\* was there before layer k (in the tree at the start or from a lower layer)
\* and that neither layer k nor a later one adds is gone after unpack.
C15_OpaqueWhiteout ==
    PlainDone("unpack") =>
        \A k \in LayerNos : \A p \in {DA, DWhA} :
            (/\ Adds(k, DOpq)
             /\ At(fs0, p) # "none" \/ \E i \in LayerNos : i < k /\ Adds(i, p)
             /\ \A j \in LayerNos : j >= k => ~Adds(j, p))
            => At(fs, p) = "none"

\* What unpack leaves for layers that are plain gzip-compressed tar archives
\* when nothing fails from outside: lines 28-40.
unpack_plain(ls, t) ==
    IF ls = <<>>
      THEN [ret |-> RenderRes("Ok", "none"), fs |-> t]
      ELSE [ret |-> RenderRes("Io", "none"),
            fs |-> Unpacked(t, ls[1], Len(ls[1]))]

\* C19 (as claimed): unpack_files gives the result and the final tree that
\* unpack gives for what the files hold, and fails with Io when a file cannot
\* be read.
C19_UnpackFilesAsUnpack ==
    PlainDone("unpack_files") =>
        IF skipped > 0
          THEN r_ret = RenderRes("Io", "none")
          ELSE /\ r_ret = unpack_plain(layers, fs0).ret
               /\ fs = unpack_plain(layers, fs0).fs

\* C20 (as claimed): unpack_partial extracts the entries under the prefix
\* and no others: afterwards a path under the prefix that a layer adds and
\* that neither this layer nor a later one whites out is there, and every
\* path outside the prefix is as it was.
C20_PartialExtraction ==
    PlainDone("unpack_partial") =>
        /\ \A p \in RealPaths : \A k \in LayerNos :
             (/\ IsUnder(filter, p)
              /\ Adds(k, p)
              /\ \A j \in LayerNos : j > k => ~Opaque(j, p)
              /\ \A j \in LayerNos : j >= k => ~Masks(j, p))
             => At(fs, p) # "none"
        /\ \A p \in Paths : ~IsUnder(filter, p) => At(fs, p) = At(fs0, p)

\* The step in which unpack returns Io.
IoReturn == r_op = "unpack" /\ r_ret.kind # "Io" /\ r_ret'.kind = "Io"

\* What the step that returns Io may leave in target_dir: the tree as it
\* was with the entries of the layer in hand extracted up to the failing
\* one, or the tree as it was less what one whiteout removed before the
\* failure.
LeftOnDisk ==
    IF r_pc = "unpack"
      THEN /\ l' = l
           /\ pos' < Len(layers[l])
           /\ fs' = Unpacked(fs, layers[l], pos')
    ELSE IF r_pc = "whiteouts"
      THEN /\ l' = l
           /\ \/ fs' = fs
              \/ \E p \in DOMAIN fs : fs' = RemoveAll(fs, p)
    ELSE /\ l' \in {l, l + 1}
         /\ fs' = fs

\* C21: an I/O error while layer k is applied (decoding, extraction or
\* whiteout processing) makes unpack return Io in the same step; what
\* layers before k and the part of layer k applied so far wrote stays in
\* target_dir, and after the return nothing of a later layer is applied:
\* neither the tree nor the layer counter changes again.
C21_RenderFailureModel ==
    /\ []((r_op = "unpack" /\ fault) => (r_pc = "done" /\ r_ret.kind = "Io"))
    /\ [][IoReturn => (r_pc' = "done" /\ LeftOnDisk)]_vars
    /\ [][(r_op = "unpack" /\ r_ret.kind = "Io") =>
            UNCHANGED <<fs, l, pos, r_pc, r_ret>>]_vars

\* Extraction failed on the second layer: the entry the first layer wrote
\* is in target_dir, the call returned Io.
C21_Witness ==
    /\ r_op = "unpack"
    /\ r_pc = "done"
    /\ r_ret.kind = "Io"
    /\ fault
    /\ l = 2
    /\ Len(layers) = 2
    /\ Len(layers[1]) > 0
    /\ Len(layers[2]) > 0
    /\ pos = 0
    /\ layers[1][1].path \in RealPaths
    /\ At(fs0, layers[1][1].path) = "none"
    /\ At(fs, layers[1][1].path) = layers[1][1].node

====
